---- MODULE Spec2Model ----
(***************************************************************************)
(* A model of the crawl-coordination engine of site_word_freq              *)
(* (src/finder.go, src/main.go): the coordinator loop of WordFinder.run,   *)
(* the fixed pool of worker goroutines, WordFinder.addLinkData with its    *)
(* deferred-send helper goroutines, and the cancellation goroutine of      *)
(* main.  One action per step of a goroutine between two points where      *)
(* another goroutine can observe or affect it.                             *)
(***************************************************************************)
EXTENDS Integers, Sequences, FiniteSets, Bags, TLC

(***************************************************************************)
(* Bounds of the model.                                                    *)
(***************************************************************************)
\* The -concurrency flag (src/main.go:35): the number of worker goroutines.
concurrency == 2

\* The -tot_words flag (src/main.go:38): how many top words are reported.
totWords == 2

\* Capacity of the task channel (src/finder.go:70).  The source sizes it
\* concurrencyMultiplier * concurrency; the model takes a small capacity so
\* that a full channel, and so a blocked coordinator, is reached.
TaskCap == 1

\* Capacity of the filter channel (src/finder.go:58), sized the same way in
\* the source; small here so that the non-blocking send of addLinkData
\* fails and helper goroutines are started.
FilterCap == 1

(***************************************************************************)
(* The site: the inputs of a run.                                          *)
(***************************************************************************)
URLs == {"A", "B", "C", "D", "E", "F"}

NoURL == "-"

\* wf.startURL.String()
startURL == "A"

NoLinks == [u \in URLs |-> << >>]

\* A page with no links at all.
SiteSingle == NoLinks

\* A -> [B, C], B -> [A, D], C -> [], D -> [].
SiteDiamond == [NoLinks EXCEPT !["A"] = <<"B", "C">>, !["B"] = <<"A", "D">>]

\* Self links, a link back to the seed and a link repeated in one batch.
SiteLoops == [NoLinks EXCEPT !["A"] = <<"A", "B", "B">>, !["B"] = <<"B", "A", "C">>]

\* One page with more links than workers and channel slots together.
SiteWide == [NoLinks EXCEPT !["A"] = <<"B", "C", "D", "E", "F">>]

Sites == {SiteSingle, SiteDiamond, SiteLoops, SiteWide}

\* The sets of pages whose processing fails.
BadSets == {{}, {"B"}, {"B", "C"}}

\* The word counts of each page, as the page processor extracts them.
PageWords ==
  [u \in URLs |->
     CASE u = "A" -> ("w1" :> 1)
       [] u = "B" -> ("w1" :> 2) @@ ("w2" :> 1)
       [] u = "C" -> ("w2" :> 3)
       [] u = "D" -> ("w1" :> 1) @@ ("w3" :> 1)
       [] OTHER   -> << >>]

\* A start loop that runs once too often.
WorkersOneMore == 1..(concurrency + 1)

\* finder.go:72: `for i := 0; i < *concurrency; i++` starts the workers.
Workers == 1..concurrency

VARIABLES
  site,          \* the links of every page (fixed during a run)
  bad,           \* the pages whose processing fails (fixed during a run)
  ctxDone,       \* ctx.Done() is closed: cancel() was called
  cpc,           \* the coordinator's position in run()
  cnt,           \* run's loop variable cnt
  l,             \* the batch received at finder.go:95
  i,             \* index into l of the range loop at finder.go:100
  visited,       \* wf.visited, as the set of keys mapped to true
  interrupt,     \* wf.interrupt
  tasks,         \* contents of the tasks channel
  tasksCloses,   \* number of close(tasks) executed
  filter,        \* contents of the wf.filter channel
  filterCloses,  \* number of close(wf.filter) executed
  helpers,       \* bag of batches held by helper goroutines (finder.go:152)
  wpc,           \* each worker's position
  wrec,          \* each worker's current SearchRecord (its url)
  mu,            \* wf.mu: 0 when free, else the worker holding it
  words,         \* wf.words
  errRecords,    \* wf.errRecords
  panic,         \* "none", or the runtime panic that ended the program
  sent,          \* history: times each URL was sent into tasks
  processed,     \* history: times processLink ran on each URL
  submitted,     \* history: bag of batches handed to addLinkData's send
  relayed,       \* history: number of batches sent by helper goroutines
  received,      \* history: bag of batches received at finder.go:95
  results        \* what getResults returned to showStatus, once called

vars == <<site, bad, ctxDone, cpc, cnt, l, i, visited, interrupt, tasks,
          tasksCloses, filter, filterCloses, helpers, wpc, wrec, mu, words,
          errRecords, panic, sent, processed, submitted, relayed,
          received, results>>

coordVars == <<cpc, cnt, l, i, visited, interrupt>>
chanVars == <<tasks, tasksCloses, filter, filterCloses, helpers>>
workerVars == <<wpc, wrec, mu, words, errRecords>>
histVars == <<sent, processed, submitted, relayed, received>>
inputVars == <<site, bad>>
outVars == <<results>>

Running == panic = "none"

tasksClosed == tasksCloses > 0

filterClosed == filterCloses > 0

(***************************************************************************)
(* The page processor (SearchRecord.processLink): it returns the page's    *)
(* words and links, or an error and nothing else.                          *)
(***************************************************************************)
ProcessErr(u) == u \in bad

ProcessWords(u) == IF u \in bad THEN << >> ELSE PageWords[u]

ProcessLinks(u) == IF u \in bad THEN << >> ELSE site[u]

Init ==
  /\ site \in Sites
  /\ bad \in BadSets
  /\ ctxDone = FALSE
  /\ cpc = "prime"
  /\ cnt = 0
  /\ l = << >>
  /\ i = 0
  /\ visited = {}
  /\ interrupt = FALSE
  /\ tasks = << >>
  /\ tasksCloses = 0
  /\ filter = << >>
  /\ filterCloses = 0
  /\ helpers = EmptyBag
  /\ wpc = [w \in Workers |-> "idle"]
  /\ wrec = [w \in Workers |-> NoURL]
  /\ mu = 0
  /\ words = << >>
  /\ errRecords = << >>
  /\ panic = "none"
  /\ sent = [u \in URLs |-> 0]
  /\ processed = [u \in URLs |-> 0]
  /\ submitted = EmptyBag
  /\ relayed = 0
  /\ received = EmptyBag
  /\ results = [called |-> FALSE, out |-> << >>]

BagAdd(B, e) == B (+) SetToBag({e})

BagRemove(B, e) == B (-) SetToBag({e})

(***************************************************************************)
(* Channel operations.                                                     *)
(***************************************************************************)
\* A send on a buffered channel can proceed when the buffer has room.
CanSend(ch, cap) == Len(ch) < cap

(***************************************************************************)
(* The coordinator: WordFinder.run.                                        *)
(***************************************************************************)
\* A loop condition that stops one batch early.
LoopCondEarly(c) == c > 1

\* A loop condition that goes on at zero.
LoopCondLate(c) == c >= 0

\* finder.go:89: the loop condition cnt > 0.
LoopCond(c) == c > 0

\* finder.go:101: wf.visited[link] == false.
NotVisited(link) == link \notin visited

\* A range loop that stops after the first element of the batch.
RangeDoneFirstOnly(k, b) == k > 1 \/ k > Len(b)

\* finder.go:100: `for _, link := range l` is over after the last element.
RangeDone(k, b) == k > Len(b)

\* finder.go:84 and the loop initialisation of finder.go:89: the start URL
\* is sent into tasks (the workers are already started and the channel is
\* empty, so the send does not block) and cnt starts at 1.
Prime ==
  /\ Running
  /\ cpc = "prime"
  /\ CanSend(tasks, TaskCap)
  /\ tasks' = Append(tasks, startURL)
  /\ sent' = [sent EXCEPT ![startURL] = @ + 1]
  /\ cnt' = 1
  /\ cpc' = "recv"
  /\ UNCHANGED <<l, i, visited, interrupt, tasksCloses, filter, filterCloses,
                 helpers, processed, submitted, relayed, received>>
  /\ UNCHANGED <<workerVars, inputVars, outVars, ctxDone, panic>>

\* A receive that does not look at wf.interrupt.
RecvIgnoringInterrupt ==
  /\ Running
  /\ cpc = "recv"
  /\ filter # << >>
  /\ filter' = Tail(filter)
  /\ received' = BagAdd(received, Head(filter))
  /\ cpc' = "range"
  /\ l' = Head(filter)
  /\ i' = 1
  /\ UNCHANGED <<cnt, visited, interrupt, tasks, tasksCloses, filterCloses,
                 helpers, sent, processed, submitted, relayed>>
  /\ UNCHANGED <<workerVars, inputVars, outVars, ctxDone, panic>>

\* finder.go:95-98: block on the filter channel; with wf.interrupt set the
\* batch is dropped by `continue`, which runs the loop's post statement.
Recv ==
  /\ Running
  /\ cpc = "recv"
  /\ filter # << >>
  /\ filter' = Tail(filter)
  /\ received' = BagAdd(received, Head(filter))
  /\ IF interrupt
       THEN /\ cpc' = "post"
            /\ UNCHANGED <<l, i>>
       ELSE /\ cpc' = "range"
            /\ l' = Head(filter)
            /\ i' = 1
  /\ UNCHANGED <<cnt, visited, interrupt, tasks, tasksCloses, filterCloses,
                 helpers, sent, processed, submitted, relayed>>
  /\ UNCHANGED <<workerVars, inputVars, outVars, ctxDone, panic>>

\* finder.go:100-101: a link that is already visited is skipped.
Skip ==
  /\ Running
  /\ cpc = "range"
  /\ ~RangeDone(i, l)
  /\ ~NotVisited(l[i])
  /\ i' = i + 1
  /\ UNCHANGED <<cpc, cnt, l, visited, interrupt>>
  /\ UNCHANGED <<chanVars, workerVars, histVars, inputVars, outVars, ctxDone, panic>>

\* finder.go:101-107: a new link is marked visited and counted, then the
\* coordinator enters the select.
Mark ==
  /\ Running
  /\ cpc = "range"
  /\ ~RangeDone(i, l)
  /\ NotVisited(l[i])
  /\ visited' = visited \cup {l[i]}
  /\ cnt' = cnt + 1
  /\ cpc' = "select"
  /\ UNCHANGED <<l, i, interrupt>>
  /\ UNCHANGED <<chanVars, workerVars, histVars, inputVars, outVars, ctxDone, panic>>

\* finder.go:112: the send case of the select.  It can be chosen whenever
\* the channel has room, whether or not ctx.Done() is ready as well.
SelectSend ==
  /\ Running
  /\ cpc = "select"
  /\ IF tasksClosed
       THEN /\ panic' = "send on closed channel"
            /\ UNCHANGED <<tasks, sent, cpc, i>>
       ELSE /\ CanSend(tasks, TaskCap)
            /\ tasks' = Append(tasks, l[i])
            /\ sent' = [sent EXCEPT ![l[i]] = @ + 1]
            /\ i' = i + 1
            /\ cpc' = "range"
            /\ UNCHANGED panic
  /\ UNCHANGED <<cnt, l, visited, interrupt, tasksCloses, filter,
                 filterCloses, helpers, processed, submitted, relayed, received>>
  /\ UNCHANGED <<workerVars, inputVars, outVars, ctxDone>>

\* A cancellation case that does not take back the increment of cnt.
SelectCancelKeepsCount ==
  /\ Running
  /\ cpc = "select"
  /\ ctxDone
  /\ interrupt' = TRUE
  /\ i' = i + 1
  /\ cpc' = "range"
  /\ UNCHANGED <<cnt, l, visited>>
  /\ UNCHANGED <<chanVars, workerVars, histVars, inputVars, outVars, ctxDone, panic>>

\* finder.go:109-111: the cancellation case of the select.  The range loop
\* over l goes on with the next link afterwards.
SelectCancel ==
  /\ Running
  /\ cpc = "select"
  /\ ctxDone
  /\ cnt' = cnt - 1
  /\ interrupt' = TRUE
  /\ i' = i + 1
  /\ cpc' = "range"
  /\ UNCHANGED <<l, visited>>
  /\ UNCHANGED <<chanVars, workerVars, histVars, inputVars, outVars, ctxDone, panic>>

\* finder.go:115: the range loop over l is finished.
EndRange ==
  /\ Running
  /\ cpc = "range"
  /\ RangeDone(i, l)
  /\ cpc' = "post"
  /\ l' = << >>
  /\ i' = 0
  /\ UNCHANGED <<cnt, visited, interrupt>>
  /\ UNCHANGED <<chanVars, workerVars, histVars, inputVars, outVars, ctxDone, panic>>

\* finder.go:89: the post statement cnt-- and the loop condition.
Post ==
  /\ Running
  /\ cpc = "post"
  /\ cnt' = cnt - 1
  /\ cpc' = IF LoopCond(cnt - 1) THEN "recv" ELSE "close_tasks"
  /\ UNCHANGED <<l, i, visited, interrupt>>
  /\ UNCHANGED <<chanVars, workerVars, histVars, inputVars, outVars, ctxDone, panic>>

\* finder.go:126: close(tasks).
CloseTasks ==
  /\ Running
  /\ cpc = "close_tasks"
  /\ IF tasksClosed
       THEN /\ panic' = "close of closed channel"
            /\ UNCHANGED <<tasksCloses, cpc>>
       ELSE /\ tasksCloses' = tasksCloses + 1
            /\ cpc' = "close_filter"
            /\ UNCHANGED panic
  /\ UNCHANGED <<cnt, l, i, visited, interrupt, tasks, filter, filterCloses,
                 helpers>>
  /\ UNCHANGED <<workerVars, histVars, inputVars, outVars, ctxDone>>

\* finder.go:127: close(wf.filter).
CloseFilter ==
  /\ Running
  /\ cpc = "close_filter"
  /\ IF filterClosed
       THEN /\ panic' = "close of closed channel"
            /\ UNCHANGED <<filterCloses, cpc>>
       ELSE /\ filterCloses' = filterCloses + 1
            /\ cpc' = "wait"
            /\ UNCHANGED panic
  /\ UNCHANGED <<cnt, l, i, visited, interrupt, tasks, tasksCloses, filter,
                 helpers>>
  /\ UNCHANGED <<workerVars, histVars, inputVars, outVars, ctxDone>>

\* finder.go:128: wg.Wait() returns when every worker has left its loop.
Wait ==
  /\ Running
  /\ cpc = "wait"
  /\ \A w \in Workers : wpc[w] = "exited"
  /\ cpc' = "returned"
  /\ UNCHANGED <<cnt, l, i, visited, interrupt>>
  /\ UNCHANGED <<chanVars, workerVars, histVars, inputVars, outVars, ctxDone, panic>>

Coordinator ==
  \/ Prime
  \/ Recv
  \/ Skip
  \/ Mark
  \/ SelectSend
  \/ SelectCancel
  \/ EndRange
  \/ Post
  \/ CloseTasks
  \/ CloseFilter
  \/ Wait


(***************************************************************************)
(* The workers: the goroutines started at finder.go:72-81.                 *)
(***************************************************************************)
\* finder.go:77: `for rec := range tasks` receives the next task.
Take(w) ==
  /\ Running
  /\ wpc[w] = "idle"
  /\ tasks # << >>
  /\ wrec' = [wrec EXCEPT ![w] = Head(tasks)]
  /\ tasks' = Tail(tasks)
  /\ wpc' = [wpc EXCEPT ![w] = "process"]
  /\ UNCHANGED <<tasksCloses, filter, filterCloses, helpers, mu, words,
                 errRecords>>
  /\ UNCHANGED <<coordVars, histVars, inputVars, outVars, ctxDone, panic>>

\* finder.go:77: the range loop ends when tasks is closed and drained;
\* finder.go:75: the deferred wg.Done().
Exit(w) ==
  /\ Running
  /\ wpc[w] = "idle"
  /\ tasks = << >>
  /\ tasksClosed
  /\ wpc' = [wpc EXCEPT ![w] = "exited"]
  /\ UNCHANGED <<wrec, mu, words, errRecords>>
  /\ UNCHANGED <<coordVars, chanVars, histVars, inputVars, outVars, ctxDone, panic>>

\* finder.go:78: rec.processLink(ctx, wf) fetches and scans the page, then
\* calls addLinkData with the outcome.
Process(w) ==
  /\ Running
  /\ wpc[w] = "process"
  /\ processed' = [processed EXCEPT ![wrec[w]] = @ + 1]
  /\ wpc' = [wpc EXCEPT ![w] = "lock"]
  /\ UNCHANGED <<wrec, mu, words, errRecords, sent, submitted, relayed,
                 received>>
  /\ UNCHANGED <<coordVars, chanVars, inputVars, outVars, ctxDone, panic>>

\* A lock that is taken without waiting for its holder.
LockNoWait(w) ==
  /\ Running
  /\ wpc[w] = "lock"
  /\ mu' = w
  /\ wpc' = [wpc EXCEPT ![w] = "merge"]
  /\ UNCHANGED <<wrec, words, errRecords>>
  /\ UNCHANGED <<coordVars, chanVars, histVars, inputVars, outVars, ctxDone, panic>>

\* finder.go:135: wf.mu.Lock().
Lock(w) ==
  /\ Running
  /\ wpc[w] = "lock"
  /\ mu = 0
  /\ mu' = w
  /\ wpc' = [wpc EXCEPT ![w] = "merge"]
  /\ UNCHANGED <<wrec, words, errRecords>>
  /\ UNCHANGED <<coordVars, chanVars, histVars, inputVars, outVars, ctxDone, panic>>

\* An append that records every page, failed or not.
AppendErrAlways(recs, u) == Append(recs, [url |-> u, err |-> "error"])

\* finder.go:138-140: only records with errors are appended.
AppendErr(recs, u) ==
  IF ProcessErr(u) THEN Append(recs, [url |-> u, err |-> "error"]) ELSE recs

\* A merge that stores a page's count instead of adding it.
MergeWordsOverwrite(h, wds) ==
  [k \in DOMAIN h \cup DOMAIN wds |->
     IF k \in DOMAIN wds THEN wds[k] ELSE h[k]]

\* finder.go:141-143: wf.words[k] += v for every entry of wds.
MergeWords(h, wds) ==
  [k \in DOMAIN h \cup DOMAIN wds |->
     (IF k \in DOMAIN h THEN h[k] ELSE 0)
       + (IF k \in DOMAIN wds THEN wds[k] ELSE 0)]

\* finder.go:137-143: the merge, with wf.mu held.
Merge(w) ==
  /\ Running
  /\ wpc[w] = "merge"
  /\ errRecords' = AppendErr(errRecords, wrec[w])
  /\ words' = MergeWords(words, ProcessWords(wrec[w]))
  /\ wpc' = [wpc EXCEPT ![w] = "unlock"]
  /\ UNCHANGED <<wrec, mu>>
  /\ UNCHANGED <<coordVars, chanVars, histVars, inputVars, outVars, ctxDone, panic>>

\* finder.go:144: wf.mu.Unlock().
Unlock(w) ==
  /\ Running
  /\ wpc[w] = "unlock"
  /\ mu' = 0
  /\ wpc' = [wpc EXCEPT ![w] = "send"]
  /\ UNCHANGED <<wrec, words, errRecords>>
  /\ UNCHANGED <<coordVars, chanVars, histVars, inputVars, outVars, ctxDone, panic>>

\* A report whose send blocks until the channel has room (no default case).
ReportBlocking(w) ==
  /\ Running
  /\ wpc[w] = "send"
  /\ CanSend(filter, FilterCap)
  /\ filter' = Append(filter, ProcessLinks(wrec[w]))
  /\ submitted' = BagAdd(submitted, ProcessLinks(wrec[w]))
  /\ wpc' = [wpc EXCEPT ![w] = "idle"]
  /\ wrec' = [wrec EXCEPT ![w] = NoURL]
  /\ UNCHANGED <<tasks, tasksCloses, filterCloses, helpers, mu, words,
                 errRecords, sent, processed, relayed, received, panic>>
  /\ UNCHANGED <<coordVars, inputVars, outVars, ctxDone>>

\* A report whose default case drops the batch instead of starting a
\* goroutine for it.
ReportDropping(w) ==
  /\ Running
  /\ wpc[w] = "send"
  /\ IF CanSend(filter, FilterCap)
       THEN filter' = Append(filter, ProcessLinks(wrec[w]))
       ELSE UNCHANGED filter
  /\ submitted' = BagAdd(submitted, ProcessLinks(wrec[w]))
  /\ wpc' = [wpc EXCEPT ![w] = "idle"]
  /\ wrec' = [wrec EXCEPT ![w] = NoURL]
  /\ UNCHANGED <<tasks, tasksCloses, filterCloses, helpers, mu, words,
                 errRecords, sent, processed, relayed, received, panic>>
  /\ UNCHANGED <<coordVars, inputVars, outVars, ctxDone>>

\* finder.go:149-155: the select with a default case.  The send is taken
\* when the channel has room; otherwise a goroutine is started that holds
\* the batch, and the worker goes back to its task loop either way.
Report(w) ==
  /\ Running
  /\ wpc[w] = "send"
  /\ IF filterClosed
       THEN /\ panic' = "send on closed channel"
            /\ UNCHANGED <<filter, helpers, submitted, wpc, wrec>>
       ELSE /\ IF CanSend(filter, FilterCap)
                 THEN /\ filter' = Append(filter, ProcessLinks(wrec[w]))
                      /\ UNCHANGED helpers
                 ELSE /\ helpers' = BagAdd(helpers, ProcessLinks(wrec[w]))
                      /\ UNCHANGED filter
            /\ submitted' = BagAdd(submitted, ProcessLinks(wrec[w]))
            /\ wpc' = [wpc EXCEPT ![w] = "idle"]
            /\ wrec' = [wrec EXCEPT ![w] = NoURL]
            /\ UNCHANGED panic
  /\ UNCHANGED <<tasks, tasksCloses, filterCloses, mu, words, errRecords,
                 sent, processed, relayed, received>>
  /\ UNCHANGED <<coordVars, inputVars, outVars, ctxDone>>

Worker(w) ==
  \/ Take(w)
  \/ Exit(w)
  \/ Process(w)
  \/ Lock(w)
  \/ Merge(w)
  \/ Unlock(w)
  \/ Report(w)

(***************************************************************************)
(* The helper goroutines of addLinkData.                                   *)
(***************************************************************************)
\* finder.go:152-154: the goroutine's blocking send wf.filter <- links.
HelperSend(b) ==
  /\ Running
  /\ BagIn(b, helpers)
  /\ IF filterClosed
       THEN /\ panic' = "send on closed channel"
            /\ UNCHANGED <<filter, helpers, relayed>>
       ELSE /\ CanSend(filter, FilterCap)
            /\ filter' = Append(filter, b)
            /\ helpers' = BagRemove(helpers, b)
            /\ relayed' = relayed + 1
            /\ UNCHANGED panic
  /\ UNCHANGED <<tasks, tasksCloses, filterCloses>>
  /\ UNCHANGED <<sent, processed, submitted, received>>
  /\ UNCHANGED <<coordVars, workerVars, inputVars, outVars, ctxDone>>

Helper == \E b \in BagToSet(helpers) : HelperSend(b)

(***************************************************************************)
(* Cancellation: the signal goroutine of main.                             *)
(***************************************************************************)
\* main.go:60-66: a SIGINT or SIGTERM arrives while run() is executing and
\* cancel() closes ctx.Done().
Cancel ==
  /\ Running
  /\ ~ctxDone
  /\ cpc # "returned"
  /\ ctxDone' = TRUE
  /\ UNCHANGED <<coordVars, chanVars, workerVars, histVars, inputVars, outVars, panic>>

Workload == \E w \in Workers : Worker(w)

(***************************************************************************)
(* Result aggregation: WordFinder.getResults and its kvSorter.             *)
(***************************************************************************)
\* finder.go:160-165: `for k, v := range wf.words` fills the sorter in the
\* order the map is enumerated in, which Go leaves unspecified: every order
\* of the keys is possible.
Enumerations(h) ==
  LET n == Cardinality(DOMAIN h)
      orders == {f \in [1..n -> DOMAIN h] : \A a, b \in 1..n : a # b => f[a] # f[b]}
  IN {[k \in 1..n |-> [key |-> f[k], value |-> h[f[k]]]] : f \in orders}

\* A comparison that sorts by ascending count.
LessAscending(kvs, a, b) == kvs[a].value < kvs[b].value

\* finder.go:192-194: kvSorter.Less.
Less(kvs, a, b) == kvs[b].value < kvs[a].value

\* finder.go:187-189: kvSorter.Swap.
Swap(kvs, a, b) == [kvs EXCEPT ![a] = kvs[b], ![b] = kvs[a]]

RECURSIVE SinkDown(_, _)
\* The inner loop of the insertion sort: element b moves down while it is
\* Less than its predecessor.
SinkDown(kvs, b) ==
  IF b > 1 /\ Less(kvs, b, b - 1)
    THEN SinkDown(Swap(kvs, b, b - 1), b - 1)
    ELSE kvs

RECURSIVE InsertionSort(_, _)
\* finder.go:166: sort.Sort(sorter).  For fewer than 12 elements Go's
\* sort.Sort is an insertion sort that uses only Len, Less and Swap.
InsertionSort(kvs, a) ==
  IF a > Len(kvs) THEN kvs ELSE InsertionSort(SinkDown(kvs, a), a + 1)

\* finder.go:167-170: cnt is totWords, or len(sorter) when that is less.
TopCount(n) == IF n < totWords THEN n ELSE totWords

\* finder.go:159-172: getResults on the enumeration e of wf.words.
getResults(e) ==
  LET sorter == InsertionSort(e, 2)
  IN SubSeq(sorter, 1, TopCount(Len(sorter)))

\* main.go:68-69, 82: after run() has returned, showStatus calls
\* finder.getResults().
ShowStatus ==
  /\ Running
  /\ cpc = "returned"
  /\ ~results.called
  /\ \E e \in Enumerations(words) :
       results' = [called |-> TRUE, out |-> getResults(e)]
  /\ UNCHANGED <<coordVars, chanVars, workerVars, histVars, inputVars,
                 ctxDone, panic>>

Next ==
  \/ Coordinator
  \/ Workload
  \/ Helper
  \/ Cancel
  \/ ShowStatus

Spec == Init /\ [][Next]_vars

\* The Go scheduler runs every goroutine that can take a step: the
\* coordinator, each worker and the helper goroutines are weakly fair.  The
\* signal of main.go:64 may never come, so Cancel is not.
Fairness ==
  /\ WF_vars(Coordinator)
  /\ \A w \in Workers : WF_vars(Worker(w))
  /\ WF_vars(Helper)

FairSpec == Init /\ [][Next]_vars /\ Fairness


(***************************************************************************)
(* Derived quantities used by the properties.                              *)
(***************************************************************************)
RECURSIVE SumOver(_, _)
\* The sum of f[x] over the finite set S.
SumOver(f, S) ==
  IF S = {} THEN 0
  ELSE LET x == CHOOSE y \in S : TRUE IN f[x] + SumOver(f, S \ {x})

\* The count of word k in the word map h (0 when k is no key of h).
CountOf(h, k) == IF k \in DOMAIN h THEN h[k] ELSE 0

AllWords == UNION {DOMAIN PageWords[u] : u \in URLs}

RECURSIVE ReachFrom(_)
\* The URLs reachable from the set S through the links the pages report.
ReachFrom(S) ==
  LET N == S \cup UNION {{ProcessLinks(u)[k] : k \in 1..Len(ProcessLinks(u))} : u \in S}
  IN IF N = S THEN S ELSE ReachFrom(N)

ProcessedSet == {u \in URLs : processed[u] > 0}

TotalProcessed == SumOver(processed, URLs)

\* Workers that hold a task whose batch is not yet handed over.
Busy == {w \in Workers : wpc[w] \in {"process", "lock", "merge", "unlock", "send"}}

\* Workers inside addLinkData.
InCall == {w \in Workers : wpc[w] \in {"lock", "merge", "unlock", "send"}}

\* Workers inside addLinkData before the merge is applied.
BeforeMerge == {w \in Workers : wpc[w] \in {"lock", "merge"}}

\* How many times the merge of page u was applied.
MergedTimes(u) ==
  processed[u] - Cardinality({w \in BeforeMerge : wrec[w] = u})

RECURSIVE SeqToBag(_)
SeqToBag(q) == IF q = << >> THEN EmptyBag ELSE BagAdd(SeqToBag(Tail(q)), Head(q))

Batches == {ProcessLinks(u) : u \in URLs}

\* How many times batch b was handed to addLinkData.
Handed(b) ==
  SumOver([u \in URLs |-> IF ProcessLinks(u) = b THEN processed[u] ELSE 0], URLs)

Returned == cpc = "returned"

\* run() has returned with the count at 0, both channels closed and every
\* worker out of its task loop.
RunCompleted ==
  /\ Returned
  /\ cnt = 0
  /\ tasksClosed
  /\ filterClosed
  /\ \A w \in Workers : wpc[w] = "exited"

\* A run whose seed page yields no links has processed one task.
SinglePageOneTask ==
  (Returned /\ ProcessLinks(startURL) = << >>) => TotalProcessed = 1

(***************************************************************************)
(* C1: a run without cancellation eventually returns from run(), with the  *)
(* outstanding count at 0, both channels closed and every worker out of    *)
(* its task loop; and a run whose seed page yields no links has returned   *)
(* after exactly one task was processed.                                   *)
(***************************************************************************)
RunTerminates ==
  /\ []SinglePageOneTask
  /\ <>(ctxDone \/ RunCompleted)

\* C1 witness: an uncancelled run over several pages has returned.
RunTerminatesWitness ==
  /\ RunCompleted
  /\ ~ctxDone
  /\ TotalProcessed >= 4

(***************************************************************************)
(* C2: in every run, cancelled or not, the task channel and the filter     *)
(* channel are each closed exactly once, and no send is attempted on       *)
(* either after its close: no goroutine panics, and from the first close   *)
(* on the coordinator is past its sends, no worker holds a task or a       *)
(* batch, no task is queued and no helper goroutine is pending.            *)
(***************************************************************************)
ChannelsClosedOnce ==
  /\ panic = "none"
  /\ tasksCloses <= 1
  /\ filterCloses <= 1
  /\ Returned => tasksCloses = 1 /\ filterCloses = 1
  /\ (tasksClosed \/ filterClosed) =>
       /\ cpc \in {"close_filter", "wait", "returned"}
       /\ tasks = << >>
       /\ Busy = {}
       /\ helpers = EmptyBag

\* C2 witness: a cancelled run that processed several pages, one batch at
\* least through a helper goroutine, has returned with both channels closed.
ClosedOnceWitness ==
  /\ Returned
  /\ interrupt
  /\ tasksCloses = 1
  /\ filterCloses = 1
  /\ relayed >= 1
  /\ TotalProcessed >= 3

(***************************************************************************)
(* C3: every URL, the seed included, is sent into the task channel at      *)
(* most once.                                                              *)
(***************************************************************************)
DispatchedAtMostOnce == \A u \in URLs : sent[u] <= 1

(***************************************************************************)
(* C4: when run() returns from a run with no cancellation and no           *)
(* processing failure, the URLs processed are exactly those reachable      *)
(* from the seed through the reported links, and the error log is empty.   *)
(***************************************************************************)
VisitsExactlyReachable ==
  (Returned /\ ~ctxDone /\ (\A u \in bad : processed[u] = 0)) =>
     /\ ProcessedSet = ReachFrom({startURL})
     /\ errRecords = << >>

\* C4 witness: the run over A -> [B, C], B -> [A, D] has returned.
VisitsReachableWitness ==
  /\ Returned
  /\ ~ctxDone
  /\ site = SiteDiamond
  /\ bad = {}
  /\ ProcessedSet = {"A", "B", "C", "D"}

(***************************************************************************)
(* C5: the histogram is the sum of the word maps of the tasks whose merge  *)
(* was applied; when run() returns that is every processed task: no merge  *)
(* is pending, lost or applied twice, whatever the order of the merges.    *)
(***************************************************************************)
HistogramIsSum ==
  /\ \A k \in AllWords :
       CountOf(words, k) =
         SumOver([u \in URLs |-> MergedTimes(u) * CountOf(ProcessWords(u), k)], URLs)
  /\ DOMAIN words \subseteq AllWords
  /\ Returned =>
       /\ BeforeMerge = {}
       /\ mu = 0
       /\ \A u \in URLs : MergedTimes(u) = processed[u]

\* C5 witness: four pages were merged and the run returned.
HistogramWitness ==
  /\ Returned
  /\ site = SiteDiamond
  /\ bad = {}
  /\ ProcessedSet = {"A", "B", "C", "D"}
  /\ CountOf(words, "w1") >= 4
  /\ CountOf(words, "w2") = 4

\* Worker w can take a step.
CanStep(w) == ENABLED Worker(w)

(***************************************************************************)
(* C6: no reachable state is a deadlock.  A worker at the select of        *)
(* addLinkData can always take its step, whatever the state of the filter  *)
(* channel and of the coordinator; every worker that holds a task can      *)
(* step, or waits for wf.mu while its holder can step; a queued task is    *)
(* taken by an idle worker or some busy worker can step; and until run()   *)
(* has returned some goroutine of the program can step.                    *)
(***************************************************************************)
NoDeadlock ==
  /\ \A w \in Workers : wpc[w] = "send" => ENABLED Report(w)
  /\ \A w \in Busy :
       \/ CanStep(w)
       \/ wpc[w] = "lock" /\ mu \in Busy /\ CanStep(mu)
  /\ tasks # << >> => \E w \in Workers : CanStep(w)
  /\ Returned \/ ENABLED (Coordinator \/ Workload \/ Helper)

\* C6 witness: the coordinator is blocked sending a task into the full task
\* channel while every worker reports at once and the filter channel is
\* full.
NoDeadlockWitness ==
  /\ cpc = "select"
  /\ ~CanSend(tasks, TaskCap)
  /\ ~ctxDone
  /\ ~CanSend(filter, FilterCap)
  /\ \A w \in Workers : wpc[w] = "send"

\* The batches sent are those received, those in the filter channel and
\* those held by helper goroutines, and each call of addLinkData sends its
\* batch once.
BatchConservation ==
  /\ submitted = received (+) SeqToBag(filter) (+) helpers
  /\ \A b \in Batches :
       Handed(b) = CopiesIn(b, submitted)
                     + Cardinality({w \in InCall : ProcessLinks(wrec[w]) = b})
  /\ BagToSet(submitted) \subseteq Batches

\* Every batch handed to addLinkData has been received, once.
AllDelivered ==
  /\ Busy = {}
  /\ \A b \in Batches : CopiesIn(b, received) = Handed(b)
  /\ BagToSet(received) \subseteq Batches

(***************************************************************************)
(* C7: every batch handed to addLinkData is received by the coordinator    *)
(* loop exactly once, by the direct send or through a helper goroutine,    *)
(* in cancelled runs too: no batch is dropped or duplicated on the way,    *)
(* and eventually every batch handed over has been received.               *)
(***************************************************************************)
BatchesDeliveredOnce ==
  /\ []BatchConservation
  /\ <>[]AllDelivered

\* C7 witness: a cancelled run has returned with every batch received, one
\* at least through a helper goroutine.
BatchesDeliveredWitness ==
  /\ Returned
  /\ interrupt
  /\ AllDelivered
  /\ relayed >= 1
  /\ BagCardinality(received) >= 3

(***************************************************************************)
(* C8: once the interrupt flag is true, no task is sent into the task      *)
(* channel any more, neither for the remaining links of the batch being    *)
(* handled nor for a later batch.                                          *)
(***************************************************************************)
NoDispatchAfterInterrupt == [][interrupt => sent' = sent]_vars

(***************************************************************************)
(* C9: after the cancellation signal is asserted, only tasks dispatched    *)
(* before it are processed: no task is dispatched after the signal.        *)
(***************************************************************************)
NoDispatchAfterSignal == [][ctxDone => sent' = sent]_vars

ErrRecordsOf(u) == {k \in 1..Len(errRecords) : errRecords[k].url = u}

\* One record per merged page that failed, none for the others.
ErrorLogExact ==
  /\ \A u \in URLs :
       Cardinality(ErrRecordsOf(u)) = IF ProcessErr(u) THEN MergedTimes(u) ELSE 0
  /\ \A u \in URLs : ProcessErr(u) => processed[u] <= 1
  /\ \A k \in 1..Len(errRecords) : errRecords[k].err = "error"

\* The log only grows at its end, by the failed page whose merge completes.
ErrorLogStep ==
  /\ Len(errRecords') >= Len(errRecords)
  /\ SubSeq(errRecords', 1, Len(errRecords)) = errRecords
  /\ \A w \in Workers :
       (wpc[w] = "merge" /\ wpc'[w] = "unlock") =>
          errRecords' = IF ProcessErr(wrec[w])
                          THEN Append(errRecords, [url |-> wrec[w], err |-> "error"])
                          ELSE errRecords

CrawlCompleted ==
  /\ RunCompleted
  /\ ProcessedSet = ReachFrom({startURL})

(***************************************************************************)
(* C10: a page whose processing fails adds exactly one (url, error)        *)
(* record to the error log, appended when its merge completes, and a page  *)
(* that succeeds adds none; records are never removed or reordered; and    *)
(* the failure does not stop the crawl: an uncancelled run still returns,  *)
(* having processed every page reachable through the links reported.       *)
(***************************************************************************)
FailuresAreLogged ==
  /\ []ErrorLogExact
  /\ [][ErrorLogStep]_vars
  /\ <>(ctxDone \/ CrawlCompleted)

\* C10 witness: two pages failed, logged in the order they completed (the
\* reverse of the order they were discovered in), and the run returned
\* with the seed processed as well.
FailuresLoggedWitness ==
  /\ Returned
  /\ ~ctxDone
  /\ site = SiteDiamond
  /\ bad = {"B", "C"}
  /\ errRecords = <<[url |-> "C", err |-> "error"], [url |-> "B", err |-> "error"]>>
  /\ ProcessedSet = {"A", "B", "C"}


\* The keys of the entries of a result.
KeysOf(out) == {out[k].key : k \in 1..Len(out)}

(***************************************************************************)
(* C11: getResults returns min(totWords, number of distinct words)         *)
(* entries, in non-increasing order of count; each is a (word, count)      *)
(* entry of the histogram, no word is returned twice, and no word left     *)
(* out has a count greater than a returned one.                            *)
(***************************************************************************)
TopWordsCorrect ==
  results.called =>
    LET out == results.out
        n == Cardinality(DOMAIN words)
    IN /\ Len(out) = IF n < totWords THEN n ELSE totWords
       /\ \A k \in 1..(Len(out) - 1) : out[k].value >= out[k + 1].value
       /\ \A k \in 1..Len(out) :
            /\ out[k].key \in DOMAIN words
            /\ out[k].value = words[out[k].key]
       /\ Cardinality(KeysOf(out)) = Len(out)
       /\ \A w \in DOMAIN words \ KeysOf(out) :
            \A k \in 1..Len(out) : words[w] <= out[k].value

\* C11 witness: getResults cut a histogram of three words with different
\* counts down to the top totWords.
TopWordsWitness ==
  /\ results.called
  /\ Cardinality(DOMAIN words) = 3
  /\ Len(results.out) = totWords
  /\ results.out[1].value > results.out[Len(results.out)].value

(***************************************************************************)
(* C12: the getResults output is the same for every order in which the     *)
(* histogram's entries are enumerated before sorting.                      *)
(***************************************************************************)
ResultsDeterministic ==
  Returned =>
    \A e1, e2 \in Enumerations(words) : getResults(e1) = getResults(e2)


\* The coordinator has left the loop of finder.go:89-116.
LoopLeft == cpc \in {"close_tasks", "close_filter", "wait", "returned"}

\* At most `concurrency` workers exist and hold a task.
PoolSize ==
  /\ DOMAIN wpc = 1..concurrency
  /\ Cardinality(Busy) <= concurrency

\* processLink runs only as the step of a worker, and no worker is added
\* or removed.
PoolStep ==
  /\ DOMAIN wpc' = DOMAIN wpc
  /\ processed' # processed =>
       \E w \in 1..concurrency : wpc[w] = "process" /\ wpc'[w] = "lock"

(***************************************************************************)
(* C13: at every moment the number of page processor invocations in        *)
(* flight is at most the worker count: exactly `concurrency` workers       *)
(* exist, none is added or removed, and processLink is only run by a       *)
(* worker, never by a helper goroutine.                                    *)
(***************************************************************************)
PoolBounded ==
  /\ []PoolSize
  /\ [][PoolStep]_vars

\* C13 witness: every worker is inside processLink while a helper goroutine
\* is pending as well.
PoolBoundedWitness ==
  /\ Cardinality(Busy) = concurrency
  /\ helpers # EmptyBag

\* The values of cnt at each position of the coordinator, once the loop
\* has initialised it.
CountRange ==
  cpc # "prime" =>
    /\ cnt >= 0
    /\ cpc \in {"recv", "range", "post"} => cnt >= 1
    /\ cpc = "select" => cnt >= 2
    /\ LoopLeft <=> cnt = 0

(***************************************************************************)
(* C14: the coordinator is out of its loop if and only if the count is 0;  *)
(* the count is at least 1 whenever the coordinator waits for a batch or   *)
(* handles one, also after a cancelled dispatch took back its increment;   *)
(* it is never negative, and once 0 it stays 0.                            *)
(***************************************************************************)
CountZeroOnce ==
  /\ []CountRange
  /\ [][(cpc # "prime" /\ cnt = 0) => cnt' = 0]_vars

\* C14 witness: a cancelled dispatch has just taken back its increment and
\* the count is 1.
CountZeroWitness ==
  /\ cpc = "range"
  /\ interrupt
  /\ i = 2
  /\ cnt = 1

TotalSent == SumOver(sent, URLs)

(***************************************************************************)
(* C15: whenever the coordinator is at the top of its loop, the count      *)
(* equals the tasks sent minus the batches received, which is the tasks    *)
(* in the task channel, plus the tasks held by workers, plus the batches   *)
(* in the filter channel or held by helper goroutines.                     *)
(***************************************************************************)
CountBalance ==
  cpc = "recv" =>
    /\ cnt = TotalSent - BagCardinality(received)
    /\ cnt = Len(tasks) + Cardinality(Busy) + Len(filter)
               + BagCardinality(helpers)

\* C15 witness: at the top of the loop with a task queued, a worker busy, a
\* batch in the filter channel and another held by a helper, after a
\* cancelled dispatch.
CountBalanceWitness ==
  /\ cpc = "recv"
  /\ interrupt
  /\ tasks # << >>
  /\ Busy # {}
  /\ filter # << >>
  /\ helpers # EmptyBag


(***************************************************************************)
(* C16: the visited set is at every point exactly the set of URLs that     *)
(* were dispatched as tasks, the seed included from the start.             *)
(***************************************************************************)
VisitedIsDispatched == visited = {u \in URLs : sent[u] > 0}

(***************************************************************************)
(* C17: at every dispatch decision taken after the cancellation signal     *)
(* the cancellation case wins: the interrupt flag is set and no task is    *)
(* sent, also when the task channel has room.                              *)
(***************************************************************************)
CancelWinsDispatch ==
  [][(ctxDone /\ cpc = "select" /\ cpc' # "select") =>
       (interrupt' /\ sent' = sent)]_vars

\* Every merged page was merged before its batch was sent: the batches
\* sent and the workers past the merge are the merges applied.
MergedBeforeSent ==
  SumOver([u \in URLs |-> MergedTimes(u)], URLs) =
    BagCardinality(submitted)
      + Cardinality({w \in Workers : wpc[w] \in {"unlock", "send"}})

\* A receive with the interrupt flag set goes straight to the post
\* statement, and the post statement takes exactly 1 off the count; both
\* leave the visited set and the task channel alone and dispatch nothing.
DiscardStep ==
  /\ (interrupt /\ cpc = "recv" /\ cpc' # "recv") =>
        /\ cpc' = "post"
        /\ cnt' = cnt
        /\ visited' = visited
        /\ tasks' = tasks
        /\ sent' = sent
  /\ (interrupt /\ cpc = "post" /\ cpc' # "post") =>
        /\ cpc' \in {"recv", "close_tasks"}
        /\ cnt' = cnt - 1
        /\ visited' = visited
        /\ tasks' = tasks
        /\ sent' = sent

(***************************************************************************)
(* C18: a batch received while the interrupt flag is set is discarded:     *)
(* the visited set and the task channel are unchanged, none of its links   *)
(* is dispatched, the count goes down by exactly 1 for it, and the page's  *)
(* words and error were merged before the batch was sent.                  *)
(***************************************************************************)
InterruptedBatchDiscarded ==
  /\ []MergedBeforeSent
  /\ [][DiscardStep]_vars

\* C18 witness: the batch [A, D] of page B was received and dropped: the
\* coordinator is at the post statement, interrupted, and D is not visited.
DiscardedWitness ==
  /\ cpc = "post"
  /\ interrupt
  /\ site = SiteDiamond
  /\ BagIn(<<"A", "D">>, received)
  /\ "D" \notin visited
  /\ CountOf(words, "w2") >= 1

\* The workers between wf.mu.Lock() and wf.mu.Unlock().
InCritical == {w \in Workers : wpc[w] \in {"merge", "unlock"}}

(***************************************************************************)
(* C19: the merge into the histogram and the error log is a critical       *)
(* section: at most one worker is inside it, that worker holds wf.mu, and  *)
(* the lock is released before the worker sends its batch, so no worker    *)
(* at the send holds it; words and errRecords change only in the step of   *)
(* the worker that holds the lock.                                         *)
(***************************************************************************)
MergeExclusive ==
  /\ [](/\ Cardinality(InCritical) <= 1
        /\ \A w \in InCritical : mu = w
        /\ InCritical = {} => mu = 0
        /\ \A w \in Workers : wpc[w] = "send" => mu # w)
  /\ [][(words' # words \/ errRecords' # errRecords) =>
          \E w \in Workers : mu = w /\ wpc[w] = "merge" /\ wpc'[w] = "unlock"]_vars

\* C19 witness: one worker is inside the critical section, the other waits
\* for the lock.
MergeExclusiveWitness ==
  /\ \E w \in Workers : wpc[w] = "merge" /\ mu = w
  /\ \E w \in Workers : wpc[w] = "lock"

(***************************************************************************)
(* C20: when the coordinator has left its loop the system is quiescent:    *)
(* the task channel and the filter channel are empty, no worker holds a    *)
(* task or a batch, no helper goroutine is pending, every dispatched task  *)
(* was processed and merged, and the histogram and the error log reflect   *)
(* exactly the tasks processed, in cancelled runs too.                     *)
(***************************************************************************)
QuiescentAtClose ==
  LoopLeft =>
    /\ tasks = << >>
    /\ filter = << >>
    /\ Busy = {}
    /\ helpers = EmptyBag
    /\ \A u \in URLs : processed[u] = sent[u] /\ MergedTimes(u) = sent[u]
    /\ BagCardinality(received) = TotalSent
    /\ \A k \in AllWords :
         CountOf(words, k) =
           SumOver([u \in URLs |-> sent[u] * CountOf(ProcessWords(u), k)], URLs)
    /\ \A u \in URLs :
         Cardinality(ErrRecordsOf(u)) = IF ProcessErr(u) THEN sent[u] ELSE 0

\* C20 witness: a cancelled run is about to close its channels, several
\* pages processed, one batch at least through a helper goroutine.
QuiescentWitness ==
  /\ cpc = "close_tasks"
  /\ interrupt
  /\ relayed >= 1
  /\ TotalProcessed >= 3

====
